---- MODULE Spec2Model ----
(***************************************************************************)
(* TabEx popup: tab aggregation, sorting, filtering and the debounced      *)
(* live-update scheduler.  The page is a single-threaded event loop: every *)
(* action below is one task (a listener invocation, a timer callback, or   *)
(* the continuation of an async function after an awaited browser call     *)
(* settles, together with the microtasks it runs).                         *)
(***************************************************************************)
EXTENDS Integers, Sequences, FiniteSets, TLC

\* ---------------------------------------------------------------- bounds
MaxTicks == 4          \* time horizon, in quanta
MaxEvents == 2         \* user and browser events over a run
MaxWindows == 3        \* length of the lists given to sortWindows

\* ------------------------------------------------------ program constants
DebounceDelay == 300
TAB_GROUP_ID_NONE == -1
Undefined == -2        \* Map.get miss / missing property
Null == -3             \* JS null

DEFAULT_SORT == <<"tab", "count", "asc">>

\* --------------------------------------------------------- time and clock
Quantum == DebounceDelay \div 2
Epoch == 10 * Quantum  \* wall-clock reading when the page was opened (> 0)

\* --------------------------------------------------------------- strings
\* A string is a sequence of character codes; a preference string is the
\* sequence of its '-'-separated segments.
Untitled == <<85, 110, 116, 105, 116, 108, 101, 100>>
UnnamedGroup == <<85, 110, 110, 97, 109, 101, 100, 32, 71, 114, 111, 117, 112>>

LowerChar(c) == IF c >= 65 /\ c <= 90 THEN c + 32 ELSE c
ToLowerCase(s) == [i \in 1..Len(s) |-> LowerChar(s[i])]

\* String.prototype.includes
Includes(s, q) ==
    \E i \in 0..(Len(s) - Len(q)) : \A k \in 1..Len(q) : s[i + k] = q[k]

\* a || b on strings
OrString(s, d) == IF Len(s) = 0 THEN d ELSE s

\* a || b where a is a number or undefined
Falsy(v) == v = Undefined \/ v = Null \/ v = 0

\* ------------------------------------------------- what the browser reports
TabIds == {1, 2, 3}
WindowIds == {1, 2}

TabTitle(id) == CASE id = 1 -> <<71, 105>>      \* "Gi"
                  [] id = 2 -> <<>>              \* no title
                  [] OTHER -> <<100>>            \* "d"
TabUrl(id) == CASE id = 1 -> <<120>>            \* "x"
                [] id = 2 -> <<103>>             \* "g"
                [] OTHER -> <<>>

PTab(id, active, groupId) ==
    [id |-> id, title |-> TabTitle(id), url |-> TabUrl(id),
     active |-> active, groupId |-> groupId]
PWin(id, focused, tabs) == [id |-> id, focused |-> focused, tabs |-> tabs]

\* Results of chrome.windows.getAll({populate: true}); at most one window
\* is focused and every window has an active tab.
Group7 == [id |-> 7, title |-> <<>>, color |-> "blue"]

OneWindow ==
    << PWin(1, TRUE, << PTab(1, TRUE, TAB_GROUP_ID_NONE), PTab(2, FALSE, Group7.id) >>) >>
TwoWindows ==
    << PWin(1, FALSE, << PTab(1, FALSE, TAB_GROUP_ID_NONE), PTab(2, TRUE, Group7.id) >>),
       PWin(2, TRUE, << PTab(3, TRUE, TAB_GROUP_ID_NONE) >>) >>
TabOneClosed ==
    << PWin(2, TRUE, << PTab(3, TRUE, Group7.id) >>),
       PWin(1, FALSE, << PTab(2, TRUE, TAB_GROUP_ID_NONE) >>) >>

Snapshots == { OneWindow, TwoWindows, TabOneClosed }

\* Results of chrome.tabGroups.query({})
GroupLists == { <<>>, << Group7 >> }

\* Values of the search box
Queries == { <<>>, <<71>>, <<32>> }              \* "", "G", " "

\* Options of the sort selector
SortOptions == { <<"tab", "count", "asc">>, <<"focused", "desc">>,
                 <<"last", "accessed", "desc">> }

\* ------------------------------------------------------------ getAllTabs
NoGroup == [present |-> FALSE, title |-> <<>>, color |-> "none"]

\* groupMap.get(groupId) over the map built by the forEach (last set wins)
GroupMapGet(tabGroups, groupId) ==
    LET hits == { i \in 1..Len(tabGroups) : tabGroups[i].id = groupId }
    IN  IF hits = {} THEN NoGroup
        ELSE LET g == tabGroups[CHOOSE i \in hits : \A j \in hits : j <= i]
             IN  [present |-> TRUE, title |-> OrString(g.title, UnnamedGroup),
                  color |-> g.color]

ResolveGroup(tabGroups, groupId) ==
    IF groupId # TAB_GROUP_ID_NONE THEN GroupMapGet(tabGroups, groupId) ELSE NoGroup

\* tabAccessTimes.get(tab.id) || (tab.active ? Date.now() : null)
LastAccessedNoFallback(accessTimes, tab, dateNow) ==
    IF ~Falsy(accessTimes[tab.id]) THEN accessTimes[tab.id] ELSE Null

LastAccessed(accessTimes, tab, dateNow) ==
    IF ~Falsy(accessTimes[tab.id]) THEN accessTimes[tab.id]
    ELSE IF tab.active THEN dateNow ELSE Null

\* the windows.map(...) of getAllTabs
MapWindows(windows, tabGroups, accessTimes, dateNow) ==
    [i \in 1..Len(windows) |->
        [windowId |-> windows[i].id,
         focused |-> windows[i].focused,
         tabs |-> [j \in 1..Len(windows[i].tabs) |->
            LET tab == windows[i].tabs[j]
            IN  [id |-> tab.id,
                 title |-> OrString(tab.title, Untitled),
                 url |-> tab.url,
                 active |-> tab.active,
                 groupId |-> tab.groupId,
                 group |-> ResolveGroup(tabGroups, tab.groupId),
                 lastAccessed |-> LastAccessed(accessTimes, tab, dateNow),
                 windowId |-> windows[i].id]]]]

\* A failed query still yields the part that was fetched.
GetAllTabsIgnoringFailure(ok, windows, tabGroups, accessTimes, dateNow) ==
    MapWindows(windows, IF ok THEN tabGroups ELSE <<>>, accessTimes, dateNow)

\* getAllTabs once both awaits have settled: ok is FALSE when either
\* query rejected (the catch returns []).
GetAllTabs(ok, windows, tabGroups, accessTimes, dateNow) ==
    IF ok THEN MapWindows(windows, tabGroups, accessTimes, dateNow) ELSE <<>>

\* ------------------------------------------------------------ sortWindows
\* sortBy.substring(0, lastDashIndex) and sortBy.substring(lastDashIndex + 1)
SortType(sortBy) == SubSeq(sortBy, 1, Len(sortBy) - 1)
SortDirection(sortBy) == sortBy[Len(sortBy)]

Sign(n) == IF n < 0 THEN -1 ELSE IF n > 0 THEN 1 ELSE 0

\* localeCompare on lower-cased strings of letters: lexicographic order
RECURSIVE LocaleCompare(_, _)
LocaleCompare(a, b) ==
    IF Len(a) = 0 /\ Len(b) = 0 THEN 0
    ELSE IF Len(a) = 0 THEN -1
    ELSE IF Len(b) = 0 THEN 1
    ELSE IF a[1] # b[1] THEN Sign(a[1] - b[1])
    ELSE LocaleCompare(Tail(a), Tail(b))

\* window.tabs[0]?.title || 'Untitled'
FirstTitle(w) == IF Len(w.tabs) = 0 THEN Untitled ELSE OrString(w.tabs[1].title, Untitled)

\* Math.max(...tabs.map(t => t.lastAccessed || 0)); every window has a tab
MaxAccess(w) ==
    LET vals == { IF Falsy(w.tabs[j].lastAccessed) THEN 0 ELSE w.tabs[j].lastAccessed :
                    j \in 1..Len(w.tabs) }
    IN  CHOOSE v \in vals : \A u \in vals : u <= v

\* The tab-count comparator without its tie-breaker.
CompareTabCountOnly(a, b, direction) ==
    LET countDiff == Len(a.tabs) - Len(b.tabs)
    IN  IF direction = "asc" THEN countDiff ELSE -countDiff

\* case 'tab-count'
CompareTabCount(a, b, direction) ==
    LET countDiff == Len(a.tabs) - Len(b.tabs)
    IN  IF countDiff # 0 THEN (IF direction = "asc" THEN countDiff ELSE -countDiff)
        ELSE IF a.focused THEN -1
        ELSE IF b.focused THEN 1
        ELSE 0

\* The focused comparator with a tie-breaker that follows the direction.
CompareFocusedTieByDirection(a, b, direction) ==
    LET countDiff == Len(a.tabs) - Len(b.tabs)
    IN  IF a.focused /\ ~b.focused THEN (IF direction = "asc" THEN -1 ELSE 1)
        ELSE IF ~a.focused /\ b.focused THEN (IF direction = "asc" THEN 1 ELSE -1)
        ELSE IF direction = "asc" THEN countDiff ELSE -countDiff

\* case 'focused'
CompareFocused(a, b, direction) ==
    LET countDiff == Len(a.tabs) - Len(b.tabs)
    IN  IF a.focused /\ ~b.focused THEN (IF direction = "asc" THEN -1 ELSE 1)
        ELSE IF ~a.focused /\ b.focused THEN (IF direction = "asc" THEN 1 ELSE -1)
        ELSE countDiff

\* case 'alphabetical'
CompareAlphabetical(a, b, direction) ==
    LET comparison == LocaleCompare(ToLowerCase(FirstTitle(a)),
                                    ToLowerCase(FirstTitle(b)))
    IN  IF direction = "asc" THEN comparison ELSE -comparison

\* The last-accessed comparator with the first tab's time as the key.
CompareFirstTabAccessed(a, b, direction) ==
    LET key(w) == IF Falsy(w.tabs[1].lastAccessed) THEN 0 ELSE w.tabs[1].lastAccessed
        comparison == key(b) - key(a)
    IN  IF direction = "asc" THEN -comparison ELSE comparison

\* case 'last-accessed'
CompareLastAccessed(a, b, direction) ==
    LET comparison == MaxAccess(b) - MaxAccess(a)
    IN  IF direction = "asc" THEN -comparison ELSE comparison

\* the comparator passed to sorted.sort for each known sort type
Compare(a, b, sortType, direction) ==
    CASE sortType = <<"tab", "count">> -> CompareTabCount(a, b, direction)
      [] sortType = <<"focused">> -> CompareFocused(a, b, direction)
      [] sortType = <<"alphabetical">> -> CompareAlphabetical(a, b, direction)
      [] sortType = <<"last", "accessed">> -> CompareLastAccessed(a, b, direction)
      [] OTHER -> 0

KnownSortTypes == { <<"tab", "count">>, <<"focused">>, <<"alphabetical">>,
                    <<"last", "accessed">> }

\* Array.prototype.sort as the browser's engine runs it on an array of fewer
\* than 64 elements: the initial run is found (and reversed when strictly
\* descending), then the rest is placed by binary insertion.  Every call of
\* the comparator is the call the engine makes, so a comparator that is not
\* consistent gets the order the engine gives it.
Reverse(s) == [i \in 1..Len(s) |-> s[Len(s) + 1 - i]]

\* index of the last element of the run that starts at a[1]
RECURSIVE RunEnd(_, _, _, _, _)
RunEnd(a, idx, isDescending, sortType, direction) ==
    IF idx = Len(a) THEN idx
    ELSE LET order == Compare(a[idx + 1], a[idx], sortType, direction)
         IN  IF (isDescending /\ order >= 0) \/ (~isDescending /\ order < 0)
             THEN idx
             ELSE RunEnd(a, idx + 1, isDescending, sortType, direction)

CountAndMakeRun(a, sortType, direction) ==
    IF Len(a) < 2 THEN [run |-> Len(a), array |-> a]
    ELSE LET isDescending == Compare(a[2], a[1], sortType, direction) < 0
             run == RunEnd(a, 2, isDescending, sortType, direction)
         IN  [run |-> run,
              array |-> IF isDescending
                        THEN Reverse(SubSeq(a, 1, run)) \o SubSeq(a, run + 1, Len(a))
                        ELSE a]

\* number of elements of a[1..right] the pivot goes behind
RECURSIVE InsertionPoint(_, _, _, _, _, _)
InsertionPoint(a, pivot, left, right, sortType, direction) ==
    IF left >= right THEN left
    ELSE LET mid == left + ((right - left) \div 2)
         IN  IF Compare(pivot, a[mid + 1], sortType, direction) < 0
             THEN InsertionPoint(a, pivot, left, mid, sortType, direction)
             ELSE InsertionPoint(a, pivot, mid + 1, right, sortType, direction)

\* a[1..start] is sorted; the elements behind it are inserted one by one
RECURSIVE BinaryInsertionSort(_, _, _, _)
BinaryInsertionSort(a, start, sortType, direction) ==
    IF start >= Len(a) THEN a
    ELSE LET pivot == a[start + 1]
             at == InsertionPoint(a, pivot, 0, start, sortType, direction)
         IN  BinaryInsertionSort(SubSeq(a, 1, at) \o << pivot >> \o SubSeq(a, at + 1, start)
                                     \o SubSeq(a, start + 2, Len(a)),
                                 start + 1, sortType, direction)

\* sorted.sort(comparator)
ArraySort(a, sortType, direction) ==
    LET made == CountAndMakeRun(a, sortType, direction)
    IN  BinaryInsertionSort(made.array, made.run, sortType, direction)

\* A default case that falls through to the tab-count sort.
SortWindowsFallThrough(windows, sortBy) ==
    IF SortType(sortBy) \in KnownSortTypes
    THEN ArraySort(windows, SortType(sortBy), SortDirection(sortBy))
    ELSE ArraySort(windows, <<"tab", "count">>, SortDirection(sortBy))

SortWindows(windows, sortBy) ==
    IF SortType(sortBy) \in KnownSortTypes
    THEN ArraySort(windows, SortType(sortBy), SortDirection(sortBy))
    ELSE windows

\* --------------------------------------------------- filtering, renderTabs
\* The predicate without the test of the address.
MatchesTitleOnly(tab, query) ==
    \/ Len(query) = 0
    \/ Includes(ToLowerCase(tab.title), query)

\* the predicate of window.tabs.filter; query is already lower-cased
Matches(tab, query) ==
    \/ Len(query) = 0
    \/ Includes(ToLowerCase(tab.title), query)
    \/ Includes(ToLowerCase(tab.url), query)

FilteredTabs(w, query) == SelectSeq(w.tabs, LAMBDA tab : Matches(tab, query))

\* the filter of renderTabs on its own: each window with its filteredTabs,
\* the windows whose filteredTabs is empty skipped
FilterWindows(windows, searchQuery) ==
    LET query == ToLowerCase(searchQuery)
    IN  SelectSeq([i \in 1..Len(windows) |->
                      [windows[i] EXCEPT !.tabs = FilteredTabs(windows[i], query)]],
                  LAMBDA w : Len(w.tabs) > 0)

\* formatTimeAgo(timestamp) as called by createTabElement (timestamp truthy)
FormatTimeAgo(timestamp, dateNow) ==
    LET diff == dateNow - timestamp
        seconds == diff \div 1000
        minutes == seconds \div 60
        hours == minutes \div 60
        days == hours \div 24
    IN  IF seconds < 60 THEN [n |-> seconds, unit |-> "s"]
        ELSE IF minutes < 60 THEN [n |-> minutes, unit |-> "m"]
        ELSE IF hours < 24 THEN [n |-> hours, unit |-> "h"]
        ELSE [n |-> days, unit |-> "d"]

NoBadge == [n |-> 0, unit |-> "none"]

\* createTabElement(tab, windowId): what the tab item shows, and the
\* (tab.id, windowId) its dblclick listener closes over
TabItem(tab, windowId, dateNow) ==
    [id |-> tab.id, windowId |-> windowId, title |-> tab.title, url |-> tab.url,
     active |-> tab.active, group |-> tab.group,
     timeBadge |-> IF Falsy(tab.lastAccessed) THEN NoBadge
                   ELSE FormatTimeAgo(tab.lastAccessed, dateNow)]

NoResults(text) ==
    [kind |-> "no-results", text |-> text, windowId |-> 0, focused |-> FALSE,
     count |-> 0, collapsed |-> FALSE, tabs |-> <<>>]

\* collapsedWindows[id] read for its truth value
IsCollapsed(collapsed, id) == id \in collapsed.on

WindowGroup(w, query, collapsed, dateNow) ==
    [kind |-> "window-group", text |-> "", windowId |-> w.windowId,
     focused |-> w.focused, count |-> Len(FilteredTabs(w, query)),
     collapsed |-> IsCollapsed(collapsed, w.windowId),
     tabs |-> [j \in 1..Len(FilteredTabs(w, query)) |->
                  TabItem(FilteredTabs(w, query)[j], w.windowId, dateNow)]]

\* the window groups appended by the forEach, in order
WindowGroups(sortedWindows, query, collapsed, dateNow) ==
    SelectSeq([i \in 1..Len(sortedWindows) |->
                   WindowGroup(sortedWindows[i], query, collapsed, dateNow)],
              LAMBDA g : Len(g.tabs) > 0)

RECURSIVE SumCounts(_)
SumCounts(groups) ==
    IF Len(groups) = 0 THEN 0 ELSE groups[1].count + SumCounts(Tail(groups))

\* totalTabs and windowCount as renderTabs computes them
TotalTabs(sortedWindows, query) ==
    SumCounts(WindowGroups(sortedWindows, query, [keys |-> {}, on |-> {}], 0))
WindowCount(sortedWindows, query) ==
    Len(SelectSeq(sortedWindows, LAMBDA w : Len(FilteredTabs(w, query)) > 0))

\* ------------------------------------------------------------------ state
VARIABLES
    phase,                  \* where the DOMContentLoaded handler is
    now,                    \* time since the page opened (drives timers)
    skew,                   \* how far the wall clock has been set back
    timers,                 \* the page's pending setTimeout entries
    debounceTimeout,        \* the handle variable of the handler's closure
    nextTimerId,            \* the id the next setTimeout returns
    searchInput,            \* value of #search-input
    currentSortPreference,
    storedSort,             \* chrome.storage.local[SORT_PREFERENCE_KEY]
    sortSaves,              \* change handlers awaiting saveSortPreference
    events,                 \* number of user and browser events so far
    collapsedWindows,
    storedCollapsed,        \* chrome.storage.local.collapsedWindows
    tabAccessTimes,
    jobs,                   \* renderTabs invocations awaiting getAllTabs
    switches,               \* switchToTab invocations, settled ones kept
    container,              \* children of #tabs-container
    windowCount,            \* number shown in #window-count
    tabCount,               \* number shown in #tab-count
    unhandled,              \* async functions that ended in a rejection
    lastTrigger,            \* time of the latest debounce trigger
    bursts,                 \* bursts of triggers begun so far
    timerRenders,           \* renderTabs calls made by timer callbacks
    clearedIds,             \* timers removed by clearTimeout while pending
    firedIds,               \* timers whose callback ran
    lastRecord,             \* the latest tabAccessTimes.set: its key and
                            \* the value it replaced
    collapseSaves,          \* chrome.storage.local.set calls of
                            \* saveCollapsedState not yet settled, oldest first
    sortCall,               \* the latest call of sortWindows: its arguments,
                            \* the argument array after it, and its result
    filterCall              \* the latest run of the filter of renderTabs

vars == << phase, now, skew, timers, debounceTimeout, nextTimerId, searchInput,
           currentSortPreference, storedSort, sortSaves, events,
           collapsedWindows, storedCollapsed, tabAccessTimes, jobs, switches,
           container, windowCount, tabCount, unhandled, lastTrigger, bursts,
           timerRenders, clearedIds, firedIds, lastRecord, collapseSaves,
           sortCall, filterCall >>

\* what the scheduler, the recomputations and switchToTab leave alone
StillVars == << collapseSaves, sortCall, filterCall >>

\* Date.now()
DateNow == Epoch + now - skew

EmptyCollapsed == [keys |-> {}, on |-> {}]
UnsetSlot(v) == [set |-> FALSE, value |-> v]
SetSlot(v) == [set |-> TRUE, value |-> v]

NoRecord == [tabId |-> 0, before |-> Undefined]

\* no call made yet
NoCall == [made |-> FALSE]

\* what chrome.storage.local holds when the page opens: nothing on a first
\* run, otherwise what an earlier session saved
StoredAtOpen ==
    { << UnsetSlot(DEFAULT_SORT), UnsetSlot(EmptyCollapsed) >>,
      << SetSlot(<<"focused", "desc">>), SetSlot([keys |-> {1}, on |-> {1}]) >> }

Init ==
    /\ phase = "loadSort"
    /\ now = 0
    /\ skew = 0
    /\ timers = {}
    /\ debounceTimeout = Undefined
    /\ nextTimerId = 1
    /\ searchInput = <<>>
    /\ currentSortPreference = DEFAULT_SORT
    /\ \E stored \in StoredAtOpen :
          storedSort = stored[1] /\ storedCollapsed = stored[2]
    /\ sortSaves = <<>>
    /\ events = 0
    /\ collapsedWindows = EmptyCollapsed
    /\ tabAccessTimes = [t \in TabIds |-> Undefined]
    /\ jobs = <<>>
    /\ switches = <<>>
    /\ container = <<>>
    /\ windowCount = Undefined
    /\ tabCount = Undefined
    /\ unhandled = {}
    /\ lastTrigger = Undefined
    /\ bursts = 0
    /\ timerRenders = 0
    /\ clearedIds = {}
    /\ firedIds = {}
    /\ lastRecord = NoRecord
    /\ collapseSaves = <<>>
    /\ sortCall = NoCall
    /\ filterCall = NoCall

\* ----------------------------------------------------------------- timers
\* A timer callback runs when its delay has elapsed: time does not pass a
\* pending deadline and a due callback is the next task to run.
NoTimerDue == \A t \in timers : t.deadline > now

Open == phase # "unloaded" /\ NoTimerDue

\* one more event from the user or the browser
Event == events < MaxEvents /\ events' = events + 1

ClearTimeoutNoop(pending, handle) == pending

\* clearTimeout(handle): no effect when the handle names no pending timer
ClearTimeout(pending, handle) == { t \in pending : t.id # handle }

\* A delay counted from the first trigger of the burst.
DeadlineFromFirstTrigger ==
    IF timers = {} THEN now + DebounceDelay
    ELSE CHOOSE d \in { t.deadline : t \in timers } : TRUE

\* setTimeout(..., 300)
TimerDeadline == now + DebounceDelay

\* clearTimeout(debounceTimeout); debounceTimeout = setTimeout(cb, 300)
ArmTimer(useDetail, detail) ==
    /\ timers' = ClearTimeout(timers, debounceTimeout) \cup
                   { [id |-> nextTimerId, deadline |-> TimerDeadline,
                      useDetail |-> useDetail, detail |-> detail] }
    /\ clearedIds' = clearedIds \cup
                   { t.id : t \in timers \ ClearTimeout(timers, debounceTimeout) }
    /\ debounceTimeout' = nextTimerId
    /\ nextTimerId' = nextTimerId + 1
    /\ bursts' = IF lastTrigger = Undefined \/ now - lastTrigger >= DebounceDelay
                 THEN bursts + 1 ELSE bursts
    /\ lastTrigger' = now

TimerVars == << timers, debounceTimeout, nextTimerId, clearedIds, bursts, lastTrigger >>

\* ------------------------------------------------------------- renderTabs
\* renderTabs up to its first await: the container is emptied and
\* getAllTabs has issued chrome.windows.getAll
RenderStart(searchQuery) ==
    /\ container' = <<>>
    /\ jobs' = Append(jobs, [pc |-> "windows", query |-> searchQuery,
                             windows |-> <<>>])

RemoveAt(seq, i) == SubSeq(seq, 1, i - 1) \o SubSeq(seq, i + 1, Len(seq))

\* what one renderTabs(searchQuery) that runs alone leaves in the container
RenderedView(windows, searchQuery, sortBy, collapsed, dateNow) ==
    LET sortedWindows == SortWindows(windows, sortBy)
        query == ToLowerCase(searchQuery)
    IN  IF Len(windows) = 0 THEN << NoResults("No tabs found") >>
        ELSE IF TotalTabs(sortedWindows, query) = 0
             THEN << NoResults("No tabs match your search") >>
             ELSE WindowGroups(sortedWindows, query, collapsed, dateNow)

\* renderTabs from the return of getAllTabs to its end
RenderFinish(i, windows) ==
    LET sortedWindows == SortWindows(windows, currentSortPreference)
        query == ToLowerCase(jobs[i].query)
        groups == WindowGroups(sortedWindows, query, collapsedWindows, DateNow)
        totalTabs == TotalTabs(sortedWindows, query)
    IN  /\ jobs' = RemoveAt(jobs, i)
        /\ IF Len(windows) = 0
           THEN /\ container' = << NoResults("No tabs found") >>
                /\ UNCHANGED << windowCount, tabCount >>
           ELSE /\ container' = IF totalTabs = 0
                                THEN << NoResults("No tabs match your search") >>
                                ELSE container \o groups
                /\ windowCount' = WindowCount(sortedWindows, query)
                /\ tabCount' = totalTabs

\* chrome.windows.getAll settles
WindowsQuerySettled(i, ok, snapshot) ==
    /\ UNCHANGED StillVars
    /\ Open
    /\ i \in 1..Len(jobs)
    /\ jobs[i].pc = "windows"
    /\ IF ok
       THEN /\ jobs' = [jobs EXCEPT ![i].pc = "groups", ![i].windows = snapshot]
            /\ UNCHANGED << container, windowCount, tabCount >>
       ELSE RenderFinish(i, GetAllTabs(FALSE, <<>>, <<>>, tabAccessTimes, DateNow))
    /\ UNCHANGED << phase, now, skew, searchInput, currentSortPreference, storedSort,
                    sortSaves, events, collapsedWindows, storedCollapsed,
                    tabAccessTimes, switches, unhandled, timerRenders, firedIds, lastRecord >>
    /\ UNCHANGED TimerVars

\* A pass that stores the 'now' it gives to active tabs without an entry.
GroupsQuerySettledRecording(i, ok, tabGroups) ==
    /\ UNCHANGED StillVars
    /\ Open
    /\ i \in 1..Len(jobs)
    /\ jobs[i].pc = "groups"
    /\ RenderFinish(i, GetAllTabs(ok, jobs[i].windows, tabGroups, tabAccessTimes, DateNow))
    /\ tabAccessTimes' =
          [t \in TabIds |->
              IF /\ tabAccessTimes[t] = Undefined
                 /\ \E w \in 1..Len(jobs[i].windows) :
                       \E j \in 1..Len(jobs[i].windows[w].tabs) :
                          /\ jobs[i].windows[w].tabs[j].id = t
                          /\ jobs[i].windows[w].tabs[j].active
              THEN DateNow ELSE tabAccessTimes[t]]
    /\ UNCHANGED << phase, now, skew, searchInput, currentSortPreference, storedSort,
                    sortSaves, events, collapsedWindows, storedCollapsed,
                    switches, unhandled, timerRenders, firedIds, lastRecord >>
    /\ UNCHANGED TimerVars

\* chrome.tabGroups.query settles
GroupsQuerySettled(i, ok, tabGroups) ==
    /\ UNCHANGED StillVars
    /\ Open
    /\ i \in 1..Len(jobs)
    /\ jobs[i].pc = "groups"
    /\ RenderFinish(i, GetAllTabs(ok, jobs[i].windows, tabGroups, tabAccessTimes, DateNow))
    /\ UNCHANGED << phase, now, skew, searchInput, currentSortPreference, storedSort,
                    sortSaves, events, collapsedWindows, storedCollapsed,
                    tabAccessTimes, switches, unhandled, timerRenders, firedIds, lastRecord >>
    /\ UNCHANGED TimerVars

RenderVars == << container, jobs >>

\* ---------------------------------------------------------------- startup
\* result[SORT_PREFERENCE_KEY] || DEFAULT_SORT, DEFAULT_SORT when get rejects
LoadSortPreference(ok) ==
    IF ok /\ storedSort.set THEN storedSort.value ELSE DEFAULT_SORT

\* initSortControl after its await, then the handler calls loadCollapsedState
SortPreferenceLoaded(ok) ==
    /\ UNCHANGED StillVars
    /\ Open
    /\ phase = "loadSort"
    /\ currentSortPreference' = LoadSortPreference(ok)
    /\ phase' = "loadCollapsed"
    /\ UNCHANGED << now, skew, searchInput, storedSort, sortSaves, events,
                    collapsedWindows, storedCollapsed, tabAccessTimes, switches,
                    windowCount, tabCount, unhandled, timerRenders, firedIds, lastRecord >>
    /\ UNCHANGED TimerVars
    /\ UNCHANGED RenderVars

\* result.collapsedWindows || {}
LoadedCollapsed == IF storedCollapsed.set THEN storedCollapsed.value ELSE EmptyCollapsed

\* loadCollapsedState after its await; on success the handler goes on with
\* initSearch(), renderTabs() and the registration of the listeners
CollapsedStateLoaded(ok) ==
    /\ UNCHANGED StillVars
    /\ Open
    /\ phase = "loadCollapsed"
    /\ IF ok
       THEN /\ collapsedWindows' = LoadedCollapsed
            /\ RenderStart(<<>>)
            /\ phase' = "ready"
            /\ UNCHANGED unhandled
       ELSE /\ unhandled' = unhandled \cup {"DOMContentLoaded"}
            /\ phase' = "initFailed"
            /\ UNCHANGED collapsedWindows
            /\ UNCHANGED RenderVars
    /\ UNCHANGED << now, skew, searchInput, currentSortPreference, storedSort,
                    sortSaves, events, storedCollapsed, tabAccessTimes, switches,
                    windowCount, tabCount, timerRenders, firedIds, lastRecord >>
    /\ UNCHANGED TimerVars

\* -------------------------------------------------- the debounce triggers
\* const debouncedRender = () => { clearTimeout(...); ... setTimeout(...) }
DebouncedRender == ArmTimer(FALSE, <<>>)

QuietVars == << phase, now, skew, currentSortPreference, storedSort, sortSaves,
                collapsedWindows, storedCollapsed, switches, windowCount,
                tabCount, unhandled, timerRenders, firedIds >>

OnUpdatedListener ==
    /\ UNCHANGED StillVars
    /\ Open
    /\ Event
    /\ phase = "ready"
    /\ DebouncedRender
    /\ UNCHANGED << searchInput, tabAccessTimes, lastRecord >>
    /\ UNCHANGED QuietVars
    /\ UNCHANGED RenderVars

OnCreatedListener ==
    /\ UNCHANGED StillVars
    /\ Open
    /\ Event
    /\ phase = "ready"
    /\ DebouncedRender
    /\ UNCHANGED << searchInput, tabAccessTimes, lastRecord >>
    /\ UNCHANGED QuietVars
    /\ UNCHANGED RenderVars

OnRemovedListener ==
    /\ UNCHANGED StillVars
    /\ Open
    /\ Event
    /\ phase = "ready"
    /\ DebouncedRender
    /\ UNCHANGED << searchInput, tabAccessTimes, lastRecord >>
    /\ UNCHANGED QuietVars
    /\ UNCHANGED RenderVars

\* Max semantics: an older timestamp does not replace a newer one.
RecordAccessMax(accessTimes, tabId, timestamp) ==
    [accessTimes EXCEPT ![tabId] = IF @ # Undefined /\ @ > timestamp THEN @ ELSE timestamp]

\* A fresh map per write: the other entries are lost.
RecordAccessFresh(accessTimes, tabId, timestamp) ==
    [t \in DOMAIN accessTimes |-> IF t = tabId THEN timestamp ELSE Undefined]

\* tabAccessTimes.set(tabId, timestamp)
RecordAccess(accessTimes, tabId, timestamp) ==
    [accessTimes EXCEPT ![tabId] = timestamp]

\* tabAccessTimes.set(tabId, Date.now())
Record(tabId) ==
    /\ tabAccessTimes' = RecordAccess(tabAccessTimes, tabId, DateNow)
    /\ lastRecord' = [tabId |-> tabId, before |-> tabAccessTimes[tabId]]

\* The listener without its tabAccessTimes.set.
OnActivatedWithoutRecord(tabId) ==
    /\ UNCHANGED StillVars
    /\ Open
    /\ Event
    /\ phase = "ready"
    /\ DebouncedRender
    /\ UNCHANGED << searchInput, tabAccessTimes, lastRecord >>
    /\ UNCHANGED QuietVars
    /\ UNCHANGED RenderVars

OnActivatedListener(tabId) ==
    /\ UNCHANGED StillVars
    /\ Open
    /\ Event
    /\ phase = "ready"
    /\ Record(tabId)
    /\ DebouncedRender
    /\ UNCHANGED searchInput
    /\ UNCHANGED QuietVars
    /\ UNCHANGED RenderVars

\* The user edits the search box: the 'input' listener of initSearch
\* dispatches 'tabsearch', whose listener arms the timer with e.detail.
\* Before the listeners are registered only the box's value changes.
SearchInput(value) ==
    /\ UNCHANGED StillVars
    /\ Open
    /\ Event
    /\ value # searchInput
    /\ searchInput' = value
    /\ IF phase = "ready"
       THEN ArmTimer(TRUE, value)
       ELSE UNCHANGED TimerVars
    /\ UNCHANGED << tabAccessTimes, lastRecord >>
    /\ UNCHANGED QuietVars
    /\ UNCHANGED RenderVars

\* the callback given to setTimeout
TimerFires ==
    /\ UNCHANGED StillVars
    /\ phase # "unloaded"
    /\ \E t \in timers :
        /\ t.deadline <= now
        /\ timers' = timers \ {t}
        /\ firedIds' = firedIds \cup {t.id}
        /\ RenderStart(IF t.useDetail THEN t.detail ELSE searchInput)
    /\ timerRenders' = timerRenders + 1
    /\ UNCHANGED << phase, now, skew, debounceTimeout, nextTimerId, searchInput,
                    currentSortPreference, storedSort, sortSaves, events,
                    collapsedWindows, storedCollapsed, tabAccessTimes, switches,
                    windowCount, tabCount, unhandled, lastTrigger, bursts, clearedIds,
                    lastRecord >>

\* ------------------------------------------------------- sort preference
\* A change handler that goes through the debounce like the tab listeners.
SortChangeDebounced(value) ==
    /\ UNCHANGED StillVars
    /\ Open
    /\ Event
    /\ phase = "ready"
    /\ value # currentSortPreference
    /\ currentSortPreference' = value
    /\ DebouncedRender
    /\ UNCHANGED << phase, now, skew, searchInput, storedSort, sortSaves,
                    collapsedWindows, storedCollapsed, tabAccessTimes, switches,
                    windowCount, tabCount, unhandled, timerRenders, firedIds, lastRecord >>
    /\ UNCHANGED RenderVars

\* the 'change' listener up to its await of saveSortPreference
SortChange(value) ==
    /\ UNCHANGED StillVars
    /\ Open
    /\ Event
    /\ phase \in {"loadCollapsed", "ready", "initFailed"}
    /\ value # currentSortPreference
    /\ currentSortPreference' = value
    /\ sortSaves' = Append(sortSaves, value)
    /\ UNCHANGED << phase, now, skew, searchInput, storedSort, collapsedWindows,
                    storedCollapsed, tabAccessTimes, switches, windowCount, tabCount,
                    unhandled, timerRenders, firedIds, lastRecord >>
    /\ UNCHANGED TimerVars
    /\ UNCHANGED RenderVars

\* chrome.storage.local.set settles (saveSortPreference catches a rejection);
\* the listener then calls renderTabs with the search box's value
SortSaveSettled(i, ok) ==
    /\ UNCHANGED StillVars
    /\ Open
    /\ i \in 1..Len(sortSaves)
    /\ storedSort' = IF ok THEN SetSlot(sortSaves[i]) ELSE storedSort
    /\ sortSaves' = RemoveAt(sortSaves, i)
    /\ RenderStart(searchInput)
    /\ UNCHANGED << phase, now, skew, searchInput, currentSortPreference, events,
                    collapsedWindows, storedCollapsed, tabAccessTimes, switches,
                    windowCount, tabCount, unhandled, timerRenders, firedIds, lastRecord >>
    /\ UNCHANGED TimerVars

\* ------------------------------------------------------------ switchToTab
SwitchVars == << phase, now, skew, searchInput, currentSortPreference, storedSort,
                 sortSaves, collapsedWindows, storedCollapsed,
                 windowCount, tabCount, unhandled, timerRenders, firedIds >>

\* the (tab.id, windowId) pairs of the rendered tab items
RenderedTabs ==
    UNION { { << container[k].tabs[j].id, container[k].windowId >> :
                j \in 1..Len(container[k].tabs) } : k \in 1..Len(container) }

\* dblclick on a tab item: switchToTab up to its first await
\* (chrome.windows.update has been issued)
DoubleClick(tabId, windowId) ==
    /\ UNCHANGED StillVars
    /\ Open
    /\ Event
    /\ << tabId, windowId >> \in RenderedTabs
    /\ switches' = Append(switches, [tabId |-> tabId, windowId |-> windowId,
                                     pc |-> "focus"])
    /\ UNCHANGED << tabAccessTimes, lastRecord >>
    /\ UNCHANGED SwitchVars
    /\ UNCHANGED TimerVars
    /\ UNCHANGED RenderVars

\* chrome.windows.update settles: on success chrome.tabs.update is issued,
\* on failure the catch logs and switchToTab ends
FocusSettled(i, ok) ==
    /\ UNCHANGED StillVars
    /\ Open
    /\ UNCHANGED events
    /\ i \in 1..Len(switches)
    /\ switches[i].pc = "focus"
    /\ switches' = [switches EXCEPT ![i].pc = IF ok THEN "activate" ELSE "focusFailed"]
    /\ UNCHANGED << tabAccessTimes, lastRecord >>
    /\ UNCHANGED SwitchVars
    /\ UNCHANGED TimerVars
    /\ UNCHANGED RenderVars

\* The access time written in a finally block.
ActivateSettledAlwaysRecords(i, ok) ==
    /\ UNCHANGED StillVars
    /\ Open
    /\ UNCHANGED events
    /\ i \in 1..Len(switches)
    /\ switches[i].pc = "activate"
    /\ Record(switches[i].tabId)
    /\ switches' = [switches EXCEPT ![i].pc = IF ok THEN "done" ELSE "activateFailed"]
    /\ UNCHANGED SwitchVars
    /\ UNCHANGED TimerVars
    /\ UNCHANGED RenderVars

\* chrome.tabs.update settles: on success the access time is recorded
ActivateSettled(i, ok) ==
    /\ UNCHANGED StillVars
    /\ Open
    /\ UNCHANGED events
    /\ i \in 1..Len(switches)
    /\ switches[i].pc = "activate"
    /\ IF ok
       THEN /\ Record(switches[i].tabId)
            /\ switches' = [switches EXCEPT ![i].pc = "done"]
       ELSE /\ switches' = [switches EXCEPT ![i].pc = "activateFailed"]
            /\ UNCHANGED << tabAccessTimes, lastRecord >>
    /\ UNCHANGED SwitchVars
    /\ UNCHANGED TimerVars
    /\ UNCHANGED RenderVars

\* ------------------------------------------------------- unload and time
\* the 'unload' listener (registered at the end of startup) clears the
\* timer and removes the tab listeners; the document is then discarded and
\* with it the continuations of the async functions still awaiting
Unload ==
    /\ UNCHANGED StillVars
    /\ Open
    /\ phase = "ready"
    /\ phase' = "unloaded"
    /\ timers' = ClearTimeout(timers, debounceTimeout)
    /\ clearedIds' = clearedIds \cup
           { t.id : t \in timers \ ClearTimeout(timers, debounceTimeout) }
    /\ jobs' = <<>>
    /\ sortSaves' = <<>>
    /\ UNCHANGED << now, skew, debounceTimeout, nextTimerId, searchInput,
                    currentSortPreference, storedSort, events,
                    collapsedWindows, storedCollapsed, tabAccessTimes, switches,
                    container, windowCount, tabCount, unhandled, lastTrigger, bursts,
                    timerRenders, firedIds, lastRecord >>

Min(a, b) == IF a < b THEN a ELSE b

\* a quantum later, or the next deadline when that comes first
NextTime ==
    IF timers = {} THEN now + Quantum
    ELSE Min(now + Quantum,
             CHOOSE d \in { t.deadline : t \in timers } : \A t \in timers : d <= t.deadline)

\* time passes
Tick ==
    /\ UNCHANGED StillVars
    /\ Open
    /\ now + Quantum <= MaxTicks * Quantum
    /\ now' = NextTime
    /\ UNCHANGED << phase, skew, searchInput, currentSortPreference, storedSort,
                    sortSaves, events, collapsedWindows, storedCollapsed,
                    tabAccessTimes, switches, windowCount, tabCount, unhandled,
                    timerRenders, firedIds, lastRecord >>
    /\ UNCHANGED TimerVars
    /\ UNCHANGED RenderVars

\* the system clock is set back, once (Date.now() is wall-clock time)
ClockSetBack ==
    /\ UNCHANGED StillVars
    /\ Open
    /\ skew = 0
    /\ skew' = Quantum
    /\ UNCHANGED << phase, now, searchInput, currentSortPreference, storedSort,
                    sortSaves, events, collapsedWindows, storedCollapsed,
                    tabAccessTimes, switches, windowCount, tabCount, unhandled,
                    timerRenders, firedIds, lastRecord >>
    /\ UNCHANGED TimerVars
    /\ UNCHANGED RenderVars

\* the startup handler's continuations and the page's own tasks
PageStep ==
    \/ \E ok \in BOOLEAN : SortPreferenceLoaded(ok)
    \/ \E ok \in BOOLEAN : CollapsedStateLoaded(ok)
    \/ TimerFires
    \/ Unload
    \/ Tick

\* Scheduling: every debounce trigger, the sort selector and the
\* provider's answers to the recomputations they start.
Next ==
    \/ PageStep
    \/ OnUpdatedListener
    \/ OnCreatedListener
    \/ OnRemovedListener
    \/ \E tabId \in {1} : OnActivatedListener(tabId)
    \/ \E value \in {<<>>, <<71>>} : SearchInput(value)
    \/ \E value \in SortOptions : SortChange(value)
    \/ \E i \in 1..Len(sortSaves), ok \in BOOLEAN : SortSaveSettled(i, ok)
    \/ \E i \in 1..Len(jobs), ok \in BOOLEAN, snapshot \in {OneWindow} :
          WindowsQuerySettled(i, ok, snapshot)
    \/ \E i \in 1..Len(jobs), ok \in BOOLEAN, tabGroups \in {<< Group7 >>} :
          GroupsQuerySettled(i, ok, tabGroups)

\* the page opened for the first time: nothing is stored yet
InitFirstRun == Init /\ ~storedSort.set

Spec == InitFirstRun /\ [][Next]_vars

\* Access times: activations, switchToTab, a wall clock that can be set
\* back, and the recomputations that read the map.
NextAccess ==
    \/ PageStep
    \/ \E tabId \in {1} : OnActivatedListener(tabId)
    \/ \E i \in 1..Len(jobs), ok \in BOOLEAN, snapshot \in {OneWindow, TabOneClosed} :
          WindowsQuerySettled(i, ok, snapshot)
    \/ \E i \in 1..Len(jobs), ok \in BOOLEAN, tabGroups \in {<< Group7 >>} :
          GroupsQuerySettled(i, ok, tabGroups)
    \/ \E tabId \in TabIds, windowId \in WindowIds : DoubleClick(tabId, windowId)
    \/ \E i \in 1..Len(switches), ok \in BOOLEAN : FocusSettled(i, ok)
    \/ \E i \in 1..Len(switches), ok \in BOOLEAN : ActivateSettled(i, ok)
    \/ ClockSetBack

SpecAccess == InitFirstRun /\ [][NextAccess]_vars

\* ---------------------------------------- sortWindows and the filter alone
PageVars == << phase, now, skew, timers, debounceTimeout, nextTimerId, searchInput,
               currentSortPreference, storedSort, sortSaves, events,
               collapsedWindows, storedCollapsed, tabAccessTimes, jobs, switches,
               container, windowCount, tabCount, unhandled, lastTrigger, bursts,
               timerRenders, clearedIds, firedIds, lastRecord >>

\* an aggregated tab and window record, as getAllTabs builds them
ATab(id, title, lastAccessed, windowId) ==
    [id |-> id, title |-> title, url |-> <<>>, active |-> FALSE,
     groupId |-> TAB_GROUP_ID_NONE, group |-> NoGroup,
     lastAccessed |-> lastAccessed, windowId |-> windowId]
AWin(windowId, focused, tabs) == [windowId |-> windowId, focused |-> focused, tabs |-> tabs]

\* Window records to sort.  1 and 2 agree in every sort key (their titles
\* differ in case only) and both are focused; 3 and 4 agree in every key
\* and are not focused; 5 has more tabs, a tab without access time and the
\* latest access.
SortUniverse ==
    { AWin(1, TRUE, << ATab(11, <<98>>, Epoch, 1) >>),
      AWin(2, TRUE, << ATab(12, <<66>>, Epoch, 2) >>),
      AWin(3, FALSE, << ATab(13, <<98>>, Epoch, 3) >>),
      AWin(4, FALSE, << ATab(14, <<98>>, Epoch, 4) >>),
      AWin(5, FALSE, << ATab(15, <<97>>, Null, 5), ATab(16, <<99>>, Epoch + Quantum, 5) >>) }

\* the lists of at most MaxWindows different windows
SortInputs ==
    UNION { { ws \in [1..n -> SortUniverse] : \A i, j \in 1..n : i # j => ws[i] # ws[j] } :
              n \in 0..MaxWindows }

\* preference strings: the eight of the known types, an unknown type, and
\* strings without a '-'
Preferences ==
    { sortType \o << direction >> : sortType \in KnownSortTypes, direction \in {"asc", "desc"} }
        \cup { <<"window", "id", "asc">>, <<"alphabetical">>, <<"">> }

\* sortWindows(windows, sortBy); the sort runs on the copy [...windows], the
\* argument array is as before
CallSortWindows ==
    /\ ~sortCall.made /\ ~filterCall.made
    /\ \E windows \in SortInputs, sortBy \in Preferences :
          sortCall' = [made |-> TRUE, windows |-> windows, sortBy |-> sortBy,
                       after |-> windows, sorted |-> SortWindows(windows, sortBy)]
    /\ UNCHANGED << PageVars, collapseSaves, filterCall >>

\* the lists of aggregated windows to filter
FilterInputs ==
    { MapWindows(snapshot, tabGroups, [t \in TabIds |-> Undefined], Epoch) :
        snapshot \in Snapshots, tabGroups \in GroupLists }

\* the search strings: "", "G", " ", "  ", "UNT", "z"
SearchStrings == Queries \cup { <<32, 32>>, <<85, 78, 84>>, <<122>> }

\* lines 428-437 of renderTabs; window.tabs.filter returns a new array, the
\* windows and their tab lists are as before
CallFilter ==
    /\ ~sortCall.made /\ ~filterCall.made
    /\ \E windows \in FilterInputs, searchQuery \in SearchStrings :
          filterCall' = [made |-> TRUE, windows |-> windows, searchQuery |-> searchQuery,
                         after |-> windows,
                         filtered |-> FilterWindows(windows, searchQuery)]
    /\ UNCHANGED << PageVars, collapseSaves, sortCall >>

\* one call, on any of the inputs
NextPure == CallSortWindows \/ CallFilter

SpecPure == InitFirstRun /\ [][NextPure]_vars

\* ------------------------------------------------------- collapse state
\* Clicks on window headers and the store writes they start. A write carries
\* the value the map had when chrome.storage.local.set was called; the store
\* applies the writes of a page in the order they were issued, and goes on
\* applying them after the page is closed.
CollapseVars == << now, skew, timers, debounceTimeout, nextTimerId, searchInput,
                   currentSortPreference, storedSort, sortSaves, tabAccessTimes,
                   jobs, switches, windowCount, tabCount, lastTrigger, bursts,
                   timerRenders, clearedIds, firedIds, lastRecord, sortCall,
                   filterCall >>

ToggledSetOnly(collapsed, windowId) ==
    [keys |-> collapsed.keys \cup {windowId}, on |-> collapsed.on \cup {windowId}]

\* collapsedWindows[windowId] = !collapsedWindows[windowId]
Toggled(collapsed, windowId) ==
    [keys |-> collapsed.keys \cup {windowId},
     on |-> IF windowId \in collapsed.on THEN collapsed.on \ {windowId}
            ELSE collapsed.on \cup {windowId}]

ToggleWindowCollapseSaveFirst(k) ==
    /\ Open
    /\ phase = "ready"
    /\ k \in 1..Len(container)
    /\ container[k].kind = "window-group"
    /\ Event
    /\ collapseSaves' = Append(collapseSaves, collapsedWindows)
    /\ collapsedWindows' = Toggled(collapsedWindows, container[k].windowId)
    /\ container' = [container EXCEPT
                       ![k].collapsed = IsCollapsed(collapsedWindows', container[k].windowId)]
    /\ UNCHANGED << phase, storedCollapsed, unhandled >>
    /\ UNCHANGED CollapseVars

\* a click on the header of the k-th child of #tabs-container
ToggleWindowCollapse(k) ==
    /\ Open
    /\ phase = "ready"
    /\ k \in 1..Len(container)
    /\ container[k].kind = "window-group"
    /\ Event
    /\ collapsedWindows' = Toggled(collapsedWindows, container[k].windowId)
    /\ collapseSaves' = Append(collapseSaves, collapsedWindows')
    /\ container' = [container EXCEPT
                       ![k].collapsed = IsCollapsed(collapsedWindows', container[k].windowId)]
    /\ UNCHANGED << phase, storedCollapsed, unhandled >>
    /\ UNCHANGED CollapseVars

\* the oldest chrome.storage.local.set of saveCollapsedState settles; nothing
\* awaits or catches saveCollapsedState
CollapseSaveSettled(ok) ==
    /\ Len(collapseSaves) > 0
    /\ collapseSaves' = Tail(collapseSaves)
    /\ IF ok
       THEN /\ storedCollapsed' = SetSlot(Head(collapseSaves))
            /\ UNCHANGED unhandled
       ELSE /\ unhandled' = unhandled \cup {"saveCollapsedState"}
            /\ UNCHANGED storedCollapsed
    /\ UNCHANGED << phase, events, collapsedWindows, container >>
    /\ UNCHANGED CollapseVars

NextCollapse ==
    \/ \E ok \in BOOLEAN : SortPreferenceLoaded(ok)
    \/ \E ok \in BOOLEAN : CollapsedStateLoaded(ok)
    \/ \E i \in 1..Len(jobs), ok \in BOOLEAN, snapshot \in {TwoWindows} :
          WindowsQuerySettled(i, ok, snapshot)
    \/ \E i \in 1..Len(jobs), ok \in BOOLEAN, tabGroups \in {<< Group7 >>} :
          GroupsQuerySettled(i, ok, tabGroups)
    \/ \E k \in 1..Len(container) : ToggleWindowCollapse(k)
    \/ \E ok \in BOOLEAN : CollapseSaveSettled(ok)
    \/ Unload

SpecCollapse == Init /\ [][NextCollapse]_vars

\* ================================================================ claims

\* C1. Debounce coalescing: a burst of N >= 1 triggers, each less than 300
\* after the one before, makes the timer start exactly one renderTabs, and
\* that call starts 300 after the last trigger of the burst.  While the page
\* is open every burst begun has either had its one call or has its timer
\* pending, due 300 after the latest trigger; a timer callback runs exactly
\* then and brings the number of calls up to the number of bursts.
C1_DebounceCoalescing ==
    /\ [](phase = "ready" =>
            /\ timerRenders + Cardinality(timers) = bursts
            /\ \A t \in timers : t.deadline = lastTrigger + DebounceDelay /\ now <= t.deadline)
    /\ [][timerRenders' # timerRenders =>
            /\ timerRenders' = timerRenders + 1
            /\ timerRenders' = bursts
            /\ Len(jobs') = Len(jobs) + 1
            /\ now = lastTrigger + DebounceDelay]_vars

\* a burst of two triggers has been answered by one timer-started call
C1_Witness ==
    /\ bursts = 1
    /\ nextTimerId = 3
    /\ clearedIds = {1}
    /\ timerRenders = 1
    /\ timers = {}

\* C2. No two recomputations interleave: at most one renderTabs invocation
\* is between clearing the container and its completion.
C2_NoInterleaving == Len(jobs) <= 1

\* C3 as stated. A sort-preference change is a debounce trigger: its handler
\* (re)arms the quiet-period timer and does not start the recomputation
\* itself.
C3_SortChangeIsDebounced ==
    [][/\ (currentSortPreference' # currentSortPreference /\ phase' = phase) =>
              \E t \in timers' : /\ t.id \notin { u.id : u \in timers }
                                 /\ t.deadline = now + DebounceDelay
       /\ (Len(jobs') > Len(jobs)) => (phase' # phase \/ timerRenders' # timerRenders)]_vars

\* C3 amended. A sort-preference change is no debounce trigger: its handler
\* leaves the timer as it is and awaits the save; when the save settles,
\* whatever its outcome, renderTabs is called at once with the search box's
\* value, again without touching the timer.
C3_SortChangeRendersAtOnce ==
    [][/\ (currentSortPreference' # currentSortPreference /\ phase' = phase) =>
              /\ UNCHANGED << timers, debounceTimeout, jobs >>
              /\ sortSaves' = Append(sortSaves, currentSortPreference')
       /\ (Len(sortSaves') < Len(sortSaves) /\ phase' # "unloaded") =>
              /\ UNCHANGED << timers, debounceTimeout, now >>
              /\ Len(jobs') = Len(jobs) + 1
              /\ jobs'[Len(jobs')].query = searchInput
              /\ jobs'[Len(jobs')].pc = "windows"
              /\ container' = <<>>]_vars

\* the sort was changed and saved at time 0 and its renderTabs is in flight
\* next to the startup one, with no quiet period behind it
C3_Witness ==
    /\ phase = "ready"
    /\ now = 0
    /\ currentSortPreference # DEFAULT_SORT
    /\ sortSaves = <<>>
    /\ timerRenders = 0
    /\ Len(jobs) = 2

\* C4. A tab-activated notification for tab T sets tabAccessTimes[T] to the
\* current time in the very step that (re)arms the debounce timer, and no
\* other step of the scheduler (another trigger clearing that timer, the
\* timer firing, unload) changes the map: the update stays in effect whether
\* or not the recomputation ever runs.
C4_ActivationRecordsAtOnce ==
    [][IF \E t \in TabIds : OnActivatedListener(t)
       THEN \A t \in TabIds : OnActivatedListener(t) =>
               /\ tabAccessTimes'[t] = DateNow
               /\ \E tm \in timers' : /\ tm.id = debounceTimeout'
                                      /\ tm.id \notin { u.id : u \in timers }
                                      /\ tm.deadline = now + DebounceDelay
       ELSE tabAccessTimes' = tabAccessTimes]_vars

\* tab 1 was activated, unload cleared the timer that activation had armed,
\* no timer ever fired, and the access time is still in the map
C4_Witness ==
    /\ phase = "unloaded"
    /\ bursts = 1
    /\ nextTimerId = 2
    /\ clearedIds = {1}
    /\ firedIds = {}
    /\ tabAccessTimes[1] = Epoch + lastTrigger

\* C5. At most one debounce timer is pending, it is the one debounceTimeout
\* names, and a timer removed by clearTimeout never runs its callback.
C5_SingleTimer ==
    /\ Cardinality(timers) <= 1
    /\ \A t \in timers : t.id = debounceTimeout /\ t.id \notin clearedIds \cup firedIds
    /\ clearedIds \cap firedIds = {}

\* the first timer was cleared by a second trigger, whose own timer fired
C5_Witness ==
    /\ clearedIds = {1}
    /\ firedIds = {2}
    /\ phase = "ready"

\* C6. When a provider query of a pass fails, getAllTabs returns the empty
\* sequence; the renderTabs that awaited it shows 'No tabs found' and ends,
\* and the map of access times, the collapse states, the sort preference
\* and both stored slots are as before; no rejection escapes.
C6_QueryFailure ==
    /\ [](\A windows \in Snapshots, tabGroups \in GroupLists :
              GetAllTabs(FALSE, windows, tabGroups, tabAccessTimes, DateNow) = <<>>)
    /\ [][\A i \in 1..Len(jobs) :
             (WindowsQuerySettled(i, FALSE, <<>>) \/ GroupsQuerySettled(i, FALSE, <<>>)) =>
                 /\ container' = << NoResults("No tabs found") >>
                 /\ jobs' = RemoveAt(jobs, i)
                 /\ UNCHANGED << tabAccessTimes, collapsedWindows, currentSortPreference,
                                 storedSort, storedCollapsed, unhandled >>]_vars

\* a pass failed after an activation and a change of the sort: the view is
\* the 'No tabs found' message, the access time and the chosen sort are
\* still there
C6_Witness ==
    /\ container = << NoResults("No tabs found") >>
    /\ jobs = <<>>
    /\ tabAccessTimes[1] # Undefined
    /\ currentSortPreference # DEFAULT_SORT
    /\ unhandled = {}

\* C7. In the output of getAllTabs every active tab has a lastAccessed that
\* is not null: its entry of tabAccessTimes when it has one, otherwise the
\* time of the pass; an inactive tab without an entry has lastAccessed null.
C7_ActiveTabsHaveAccessTime ==
    \A i \in 1..Len(jobs) : jobs[i].pc = "groups" =>
        \A tabGroups \in GroupLists :
            LET out == GetAllTabs(TRUE, jobs[i].windows, tabGroups, tabAccessTimes, DateNow)
            IN  /\ Len(out) = Len(jobs[i].windows)
                /\ \A w \in 1..Len(out) : \A j \in 1..Len(out[w].tabs) :
                      LET tab == out[w].tabs[j]
                      IN  /\ tab.active =>
                                /\ tab.lastAccessed # Null
                                /\ tab.lastAccessed =
                                      IF tabAccessTimes[tab.id] # Undefined
                                      THEN tabAccessTimes[tab.id] ELSE DateNow
                          /\ (~tab.active /\ tabAccessTimes[tab.id] = Undefined) =>
                                tab.lastAccessed = Null

\* a pass about to map its windows: active tab 1 has an entry older than the
\* time of the pass, inactive tab 2 has none
C7_Witness ==
    /\ \E i \in 1..Len(jobs) : jobs[i].pc = "groups" /\ jobs[i].windows = OneWindow
    /\ tabAccessTimes[1] # Undefined
    /\ tabAccessTimes[1] < DateNow
    /\ tabAccessTimes[2] = Undefined

\* C8. As long as the wall clock has not been set back, no step lowers an
\* entry of tabAccessTimes or removes one, whatever the step is (activation,
\* switchToTab, a recomputation over a snapshot without the tab).
C8_EntriesNeverDecrease ==
    [][skew' = 0 =>
          \A t \in TabIds : tabAccessTimes[t] # Undefined =>
              /\ tabAccessTimes'[t] # Undefined
              /\ tabAccessTimes'[t] >= tabAccessTimes[t]]_vars

\* an entry was overwritten by a later time, and the view has since been
\* rebuilt from a snapshot in which tab 1 is closed
C8_Witness ==
    /\ skew = 0
    /\ lastRecord.tabId = 1
    /\ lastRecord.before # Undefined
    /\ tabAccessTimes[1] > lastRecord.before
    /\ Len(container) > 0
    /\ \A k \in 1..Len(container) : \A j \in 1..Len(container[k].tabs) :
           container[k].tabs[j].id # 1

\* C9. Recording an access overwrites: after tabAccessTimes.set(T, t) the
\* entry of T is t whatever it was before, also when it was larger, and the
\* other entries are as before.  Both writers (the activation listener and
\* a successful switchToTab) record Date.now() this way.
C9_OverwriteSemantics ==
    /\ [](\A t \in TabIds, d \in {0, Quantum, 2 * Quantum} :
              /\ RecordAccess(tabAccessTimes, t, DateNow - d)[t] = DateNow - d
              /\ RecordAccess(RecordAccess(tabAccessTimes, t, DateNow), t, DateNow - d)
                   = RecordAccess(tabAccessTimes, t, DateNow - d)
              /\ \A u \in TabIds \ {t} :
                    RecordAccess(tabAccessTimes, t, DateNow - d)[u] = tabAccessTimes[u])
    /\ [][/\ \A t \in TabIds : OnActivatedListener(t) =>
                 tabAccessTimes' = [tabAccessTimes EXCEPT ![t] = DateNow]
          /\ \A i \in 1..Len(switches) : ActivateSettled(i, TRUE) =>
                 tabAccessTimes' = [tabAccessTimes EXCEPT ![switches[i].tabId] = DateNow]]_vars

\* the clock was set back and the latest write replaced a larger timestamp
\* by a smaller one
C9_Witness ==
    /\ lastRecord.tabId # 0
    /\ lastRecord.before # Undefined
    /\ tabAccessTimes[lastRecord.tabId] < lastRecord.before

\* C10. switchToTab focuses the window first and issues the activation only
\* when that succeeded; the access time is recorded, as Date.now(), exactly
\* when the activation succeeded too.  A failure of either command ends the
\* call: the map is unchanged, and no step of switchToTab starts a
\* recomputation, touches the debounce timer or lets a rejection escape.
C10_SwitchToTab ==
    [][/\ Len(switches') >= Len(switches)
       /\ \A i \in 1..Len(switches) :
            LET s == switches[i]
                s2 == switches'[i]
            IN  /\ s2.tabId = s.tabId /\ s2.windowId = s.windowId
                /\ s2.pc # s.pc =>
                     /\ \/ s.pc = "focus" /\ s2.pc \in {"activate", "focusFailed"}
                        \/ s.pc = "activate" /\ s2.pc \in {"done", "activateFailed"}
                     /\ IF s2.pc = "done"
                        THEN tabAccessTimes' = [tabAccessTimes EXCEPT ![s.tabId] = DateNow]
                        ELSE tabAccessTimes' = tabAccessTimes
                     /\ UNCHANGED << jobs, container, timers, debounceTimeout, unhandled >>]_vars

\* one switchToTab went through and recorded its tab, another stopped at a
\* failed command and recorded nothing
C10_Witness ==
    \E i, j \in 1..Len(switches) :
        /\ switches[i].pc = "done"
        /\ tabAccessTimes[switches[i].tabId] # Undefined
        /\ switches[j].pc \in {"focusFailed", "activateFailed"}
        /\ tabAccessTimes[switches[j].tabId] = Undefined
        /\ unhandled = {}

\* C11. Sort stability: under each of the four known sort types and both
\* directions, two windows of the input with identical sort keys (the same
\* tab count and focused flag for tab-count and focused, the same
\* lower-cased first title for alphabetical, the same latest access for
\* last-accessed) stand in the output in the order they had in the input.
C11_SortStability ==
    (sortCall.made /\ SortType(sortCall.sortBy) \in KnownSortTypes) =>
        LET ws == sortCall.windows
            out == sortCall.sorted
            sortType == SortType(sortCall.sortBy)
            sameKey(a, b) ==
                CASE sortType \in { <<"tab", "count">>, <<"focused">> } ->
                        Len(a.tabs) = Len(b.tabs) /\ a.focused = b.focused
                  [] sortType = <<"alphabetical">> ->
                        ToLowerCase(FirstTitle(a)) = ToLowerCase(FirstTitle(b))
                  [] sortType = <<"last", "accessed">> -> MaxAccess(a) = MaxAccess(b)
            pos(w) == CHOOSE k \in 1..Len(out) : out[k] = w
        IN  \A i, j \in 1..Len(ws) :
                (i < j /\ sameKey(ws[i], ws[j])) => pos(ws[i]) < pos(ws[j])

\* C12. sortWindows returns a permutation of its input (every window record
\* as often as in the input), leaves the argument array as it was, and for
\* a preference whose type is not one of the four known ones, a string
\* without '-' included, returns the windows in the order of the input.
C12_SortIsPurePermutation ==
    sortCall.made =>
        LET ws == sortCall.windows
            out == sortCall.sorted
        IN  /\ Len(out) = Len(ws)
            /\ \A w \in SortUniverse :
                  Cardinality({ k \in 1..Len(out) : out[k] = w })
                      = Cardinality({ k \in 1..Len(ws) : ws[k] = w })
            /\ sortCall.after = ws
            /\ SortType(sortCall.sortBy) \notin KnownSortTypes => out = ws

\* the string 'alphabetical' has no '-': the list whose first window has
\* more tabs than its second comes back in the same order
C12_Witness ==
    /\ sortCall.made
    /\ sortCall.sortBy = <<"alphabetical">>
    /\ Len(sortCall.windows) >= 2
    /\ Len(sortCall.windows[1].tabs) > Len(sortCall.windows[2].tabs)
    /\ sortCall.windows[1].windowId > sortCall.windows[2].windowId
    /\ sortCall.sorted = sortCall.windows

\* C13. Under tab-count-asc the output is in non-decreasing order of tab
\* count, under tab-count-desc in non-increasing order; in both, among
\* windows with the same tab count no unfocused window stands before a
\* focused one.
C13_TabCountOrder ==
    (sortCall.made /\ SortType(sortCall.sortBy) = <<"tab", "count">>
                   /\ SortDirection(sortCall.sortBy) \in {"asc", "desc"}) =>
        LET out == sortCall.sorted
            direction == SortDirection(sortCall.sortBy)
        IN  \A i, j \in 1..Len(out) : i < j =>
                /\ direction = "asc" => Len(out[i].tabs) <= Len(out[j].tabs)
                /\ direction = "desc" => Len(out[i].tabs) >= Len(out[j].tabs)
                /\ Len(out[i].tabs) = Len(out[j].tabs) => (out[j].focused => out[i].focused)

\* tab-count-desc on an unfocused and a focused window with one tab each
\* and a window with two tabs: the two-tab window first, then the focused
\* one, then the unfocused one
C13_Witness ==
    /\ sortCall.made
    /\ sortCall.sortBy = <<"tab", "count", "desc">>
    /\ [k \in 1..Len(sortCall.windows) |-> sortCall.windows[k].windowId] = <<3, 1, 5>>
    /\ [k \in 1..Len(sortCall.sorted) |-> sortCall.sorted[k].windowId] = <<5, 1, 3>>

\* C14. Under focused-asc every focused window stands before every
\* unfocused one whatever their tab counts, under focused-desc behind; in
\* both directions windows with the same focused flag are in ascending
\* order of tab count.
C14_FocusedOrder ==
    (sortCall.made /\ SortType(sortCall.sortBy) = <<"focused">>
                   /\ SortDirection(sortCall.sortBy) \in {"asc", "desc"}) =>
        LET out == sortCall.sorted
            direction == SortDirection(sortCall.sortBy)
        IN  \A i, j \in 1..Len(out) : i < j =>
                /\ direction = "asc" => (out[j].focused => out[i].focused)
                /\ direction = "desc" => (out[i].focused => out[j].focused)
                /\ out[i].focused = out[j].focused => Len(out[i].tabs) <= Len(out[j].tabs)

\* focused-desc on the focused window, the two-tab window and a one-tab
\* window: the unfocused ones by ascending tab count, the focused one last
C14_Witness ==
    /\ sortCall.made
    /\ sortCall.sortBy = <<"focused", "desc">>
    /\ [k \in 1..Len(sortCall.windows) |-> sortCall.windows[k].windowId] = <<1, 5, 3>>
    /\ [k \in 1..Len(sortCall.sorted) |-> sortCall.sorted[k].windowId] = <<3, 5, 1>>

\* C15. With the key of a window the largest lastAccessed of its tabs (0 for
\* a tab without one), last-accessed-desc gives the windows in non-increasing
\* order of key and last-accessed-asc in non-decreasing order.
C15_LastAccessedOrder ==
    (sortCall.made /\ SortType(sortCall.sortBy) = <<"last", "accessed">>
                   /\ SortDirection(sortCall.sortBy) \in {"asc", "desc"}) =>
        LET out == sortCall.sorted
            direction == SortDirection(sortCall.sortBy)
            times(w) == { IF w.tabs[k].lastAccessed \in {Null, Undefined} THEN 0
                          ELSE w.tabs[k].lastAccessed : k \in 1..Len(w.tabs) }
            key(w) == CHOOSE t \in times(w) : \A u \in times(w) : u <= t
        IN  \A i, j \in 1..Len(out) : i < j =>
                /\ direction = "desc" => key(out[i]) >= key(out[j])
                /\ direction = "asc" => key(out[i]) <= key(out[j])

\* last-accessed-asc: the window whose first tab has no access time but
\* whose second tab is the latest of all goes behind the other one
C15_Witness ==
    /\ sortCall.made
    /\ sortCall.sortBy = <<"last", "accessed", "asc">>
    /\ [k \in 1..Len(sortCall.windows) |-> sortCall.windows[k].windowId] = <<5, 1>>
    /\ [k \in 1..Len(sortCall.sorted) |-> sortCall.sorted[k].windowId] = <<1, 5>>

\* C16. The comparator of every known sort type is consistent on the windows
\* it is given: for two of them the signs of cmp(a, b) and cmp(b, a) are
\* opposite or both zero, and cmp is transitive; and sorting the output
\* again with the same preference gives the same list.
C16_ConsistentComparators ==
    (sortCall.made /\ SortType(sortCall.sortBy) \in KnownSortTypes) =>
        LET ws == { sortCall.windows[k] : k \in 1..Len(sortCall.windows) }
            cmp(a, b) == Compare(a, b, SortType(sortCall.sortBy),
                                 SortDirection(sortCall.sortBy))
        IN  /\ \A a, b \in ws : a # b => Sign(cmp(a, b)) = -Sign(cmp(b, a))
            /\ \A a, b, c \in ws : (cmp(a, b) <= 0 /\ cmp(b, c) <= 0) => cmp(a, c) <= 0
            /\ SortWindows(sortCall.sorted, sortCall.sortBy) = sortCall.sorted

\* C17. A search string that is empty or made of blanks only matches every
\* tab: the filter then returns every window with all of its tabs.
C17_BlankQueryMatchesAll ==
    (filterCall.made
        /\ \A k \in 1..Len(filterCall.searchQuery) : filterCall.searchQuery[k] = 32) =>
            filterCall.filtered = filterCall.windows

\* C19. The filter keeps of each window exactly the tabs whose lower-cased
\* title or lower-cased address contains the lower-cased search string, in
\* the order of the provider; a window without such a tab is left out; the
\* aggregated windows and their tab lists are as before; filtering the
\* result again with the same string returns it unchanged.
C19_FilterSemantics ==
    filterCall.made =>
        LET ws == filterCall.windows
            q == ToLowerCase(filterCall.searchQuery)
            hit(tab) == Includes(ToLowerCase(tab.title), q) \/ Includes(ToLowerCase(tab.url), q)
            kept == [i \in 1..Len(ws) |-> [ws[i] EXCEPT !.tabs = SelectSeq(@, hit)]]
        IN  /\ filterCall.filtered = SelectSeq(kept, LAMBDA w : Len(w.tabs) > 0)
            /\ filterCall.after = ws
            /\ FilterWindows(filterCall.filtered, filterCall.searchQuery) = filterCall.filtered

\* "G" on two windows: one window has no tab with a g and is left out, the
\* other is kept with a tab that matches by its address only
C19_Witness ==
    /\ filterCall.made
    /\ filterCall.searchQuery = <<71>>
    /\ Len(filterCall.windows) = 2
    /\ Len(filterCall.filtered) = 1
    /\ \E k \in 1..Len(filterCall.filtered[1].tabs) :
          LET tab == filterCall.filtered[1].tabs[k]
          IN  /\ ~Includes(ToLowerCase(tab.title), <<103>>)
              /\ Includes(ToLowerCase(tab.url), <<103>>)

\* C18. When a recomputation completes, whatever its outcome, the tab count
\* shown is the number of tabs in the view and the window count shown is
\* the number of window groups in the view.
C18_CountsMatchView ==
    [][(Len(jobs') < Len(jobs) /\ phase' = phase) =>
          /\ tabCount' = SumCounts(container')
          /\ windowCount' = Cardinality({ k \in 1..Len(container') :
                                            container'[k].kind = "window-group" })]_vars

\* C20 (as stated). After any toggles, a reload of the collapse state from
\* the store yields for every window the value held in memory, also while
\* writes are pending.
C20_ReloadYieldsMemory ==
    phase \in {"ready", "unloaded"} =>
        \A w \in WindowIds :
            IsCollapsed(LoadedCollapsed, w) = IsCollapsed(collapsedWindows, w)

\* C20 (amended). When the write started by the latest toggle completes
\* successfully, a reload of the collapse state from the store yields for
\* every window the value held in memory.
C20_ReloadAfterLastWrite ==
    [][(CollapseSaveSettled(TRUE) /\ Len(collapseSaves) = 1) =>
          /\ LoadedCollapsed' = collapsedWindows'
          /\ \A w \in WindowIds :
                IsCollapsed(LoadedCollapsed', w) = IsCollapsed(collapsedWindows', w)]_vars

\* window 2 was toggled and every write has been applied to the store
C20_Witness ==
    /\ events > 0
    /\ collapseSaves = <<>>
    /\ 2 \in collapsedWindows.keys
    /\ storedCollapsed = SetSlot(collapsedWindows)

\* C21. A window never recorded is not collapsed. A toggle of W flips W's
\* flag in memory and the collapsed state of the clicked window group in the
\* step that issues the store write, while the store still holds its earlier
\* value; it leaves every other window's flag as it was, and a second toggle
\* of W gives W's flag its original value.
C21_ToggleFlips ==
    /\ [](\A w \in WindowIds :
            w \notin collapsedWindows.keys => ~IsCollapsed(collapsedWindows, w))
    /\ [][events' = events + 1 =>
            \E k \in 1..Len(container) :
               LET w == container[k].windowId
               IN  /\ container[k].kind = "window-group"
                   /\ IsCollapsed(collapsedWindows', w) = ~IsCollapsed(collapsedWindows, w)
                   /\ container' = [container EXCEPT
                                      ![k].collapsed = ~IsCollapsed(collapsedWindows, w)]
                   /\ collapseSaves' = Append(collapseSaves, collapsedWindows')
                   /\ storedCollapsed' = storedCollapsed
                   /\ \A v \in WindowIds \ {w} :
                         IsCollapsed(collapsedWindows', v) = IsCollapsed(collapsedWindows, v)
                   /\ IsCollapsed(Toggled(collapsedWindows', w), w)
                         = IsCollapsed(collapsedWindows, w)]_vars

\* window 2, unknown to the store at first, has been toggled twice
C21_Witness ==
    /\ events = 2
    /\ 2 \in collapsedWindows.keys
    /\ ~IsCollapsed(collapsedWindows, 2)
    /\ \E k \in 1..Len(container) :
          container[k].windowId = 2 /\ ~container[k].collapsed

\* C22. A failure to load the sort preference or the collapse map is not
\* fatal: once both loads have settled the page has started its first
\* recomputation and registered its listeners, and no failed load or save
\* has ended an async function of the page in a rejection.
C22_PreferenceFailuresNotFatal ==
    /\ phase \notin {"loadSort", "loadCollapsed"} => phase \in {"ready", "unloaded"}
    /\ unhandled \cap {"DOMContentLoaded", "saveSortPreference", "saveCollapsedState"} = {}

\* C23. In every record that getAllTabs returns, the group is present if
\* and only if the tab's group identity, as the window query reported it, is
\* not the 'no group' sentinel, whatever the group query returned afterwards.
C23_GroupIffReported ==
    filterCall.made =>
        \A i \in 1..Len(filterCall.windows) :
            \A j \in 1..Len(filterCall.windows[i].tabs) :
                LET tab == filterCall.windows[i].tabs[j]
                IN  tab.group.present <=> tab.groupId # TAB_GROUP_ID_NONE

\* C24. The view never holds two window groups of the same window, nor two
\* tab items of the same tab.
C24_ViewHasNoDuplicates ==
    /\ \A k, l \in 1..Len(container) :
          (k # l /\ container[k].kind = "window-group"
                 /\ container[l].kind = "window-group")
             => container[k].windowId # container[l].windowId
    /\ \A k, l \in 1..Len(container) :
          \A i \in 1..Len(container[k].tabs), j \in 1..Len(container[l].tabs) :
             << k, i >> # << l, j >> => container[k].tabs[i].id # container[l].tabs[j].id

\* C25. When no timer is pending and no recomputation is in flight after at
\* least one event, the view is what one recomputation leaves for some
\* answer of the provider (a snapshot taken at some time up to now, or a
\* failure), under the current sort preference and the search box's value.
C25_QuiescentViewIsLatest ==
    (phase = "ready" /\ events > 0 /\ timers = {} /\ jobs = <<>>) =>
        \E ok \in BOOLEAN, n \in 0..MaxTicks :
            /\ n * Quantum <= now
            /\ container =
                  RenderedView(GetAllTabs(ok, OneWindow, << Group7 >>, tabAccessTimes,
                                          Epoch + n * Quantum),
                               searchInput, currentSortPreference, collapsedWindows,
                               Epoch + n * Quantum)

\* C26. A pass of getAllTabs never writes tabAccessTimes: the map changes
\* only in the activation listener and in a successful switchToTab. The
\* 'now' a pass gives to an active tab without an entry is therefore not
\* kept: a pass in which that tab is no longer active gives it no access time.
C26_PassNeverWrites ==
    /\ [][tabAccessTimes' # tabAccessTimes =>
             \/ \E t \in TabIds : OnActivatedListener(t)
             \/ \E i \in 1..Len(switches) : ActivateSettled(i, TRUE)]_vars
    /\ [][(jobs' # jobs /\ Len(jobs') <= Len(jobs)) =>
             tabAccessTimes' = tabAccessTimes]_vars
    /\ [](\A s1, s2 \in Snapshots :
            \A w1 \in 1..Len(s1), w2 \in 1..Len(s2) :
               \A j1 \in 1..Len(s1[w1].tabs), j2 \in 1..Len(s2[w2].tabs) :
                  LET t1 == s1[w1].tabs[j1]
                      t2 == s2[w2].tabs[j2]
                  IN  (/\ t1.id = t2.id
                       /\ tabAccessTimes[t1.id] = Undefined
                       /\ t1.active
                       /\ ~t2.active) =>
                          /\ LastAccessed(tabAccessTimes, t1, DateNow) = DateNow
                          /\ LastAccessed(tabAccessTimes, t2, DateNow + Quantum) = Null)

\* after a timer-fired pass the view shows active tab 1 with its recorded
\* time and inactive tab 2 without any, and the map has no entry for the
\* tabs that were only ever seen by passes
C26_Witness ==
    /\ timerRenders > 0
    /\ jobs = <<>>
    /\ tabAccessTimes[1] # Undefined
    /\ tabAccessTimes[2] = Undefined
    /\ tabAccessTimes[3] = Undefined
    /\ \E k \in 1..Len(container) : \E j \in 1..Len(container[k].tabs) :
          /\ container[k].tabs[j].id = 2
          /\ ~container[k].tabs[j].active
          /\ container[k].tabs[j].timeBadge = NoBadge
====
